---------------------------- MODULE Spec2Model ----------------------------
(***************************************************************************)
(* Model of the model-catalog endpoint of the AI energy calculator         *)
(* (GET /api/models): the process-wide cache, the upstream fetch with its  *)
(* abort timer, the name filters, the parameter-count extraction and the   *)
(* catalog normalisation.  The route exists in two versions; the model    *)
(* follows the later one, which has the denylist, the essential models    *)
(* and the re-check of the cached entries.                                 *)
(*                                                                         *)
(* A request is a sequence of atomic segments, cut at the awaits of GET:   *)
(* the event loop runs one segment of one request at a time.               *)
(*                                                                         *)
(* Numbers.  parameters_in_billions is a JavaScript double.  The model     *)
(* keeps one decimal digit: a number is an integer count of tenths of a    *)
(* billion (B(70) is 70 billion, 15 is 1.5 billion).  The finite range of  *)
(* a double is scaled down to MaxFinite; anything above it is Infinity.    *)
(* emissions_per_token_kWh is kept in units of 1e-13 kWh.                  *)
(*                                                                         *)
(* Time is in milliseconds, as Date.now().                                 *)
(***************************************************************************)
EXTENDS Integers, Sequences, FiniteSets, TLC

(***************************************************************************)
(* Bounds of the model.                                                    *)
(***************************************************************************)
NumRequests == 2      \* GET requests that can be in progress at once
MaxFeedLen == 1       \* entries in an upstream data array
MaxTicks == 2         \* half-days the clock advances
MaxFinite == 100000   \* largest finite number (tenths): 10000 billion
MaxDataLen == 2        \* entries in a data array refreshed on its own

(***************************************************************************)
(* Characters and strings.                                                 *)
(***************************************************************************)
Digits == <<"0", "1", "2", "3", "4", "5", "6", "7", "8", "9">>

UpperCase == "ABCDEFGHIJKLMNOPQRSTUVWXYZ"

LowerCase == "abcdefghijklmnopqrstuvwxyz"

\* s[i] as a one-character string, "" outside the string
Ch(s, i) == IF i >= 1 /\ i <= Len(s) THEN SubSeq(s, i, i) ELSE ""

IsDigit(c) == \E d \in 1..10 : Digits[d] = c

DigitVal(c) == (CHOOSE d \in 1..10 : Digits[d] = c) - 1

IsUpper(c) == \E k \in 1..26 : Ch(UpperCase, k) = c

IsLower(c) == \E k \in 1..26 : Ch(LowerCase, k) = c

\* \w of a JavaScript regular expression
IsWord(c) == IsDigit(c) \/ IsUpper(c) \/ IsLower(c) \/ c = "_"

\* \s of a JavaScript regular expression (the characters the model uses)
IsSpace(c) == c = " "

LowerCh(c) == IF IsUpper(c) THEN Ch(LowerCase, CHOOSE k \in 1..26 : Ch(UpperCase, k) = c) ELSE c

RECURSIVE toLowerCase(_)
toLowerCase(s) ==
    IF Len(s) = 0 THEN ""
    ELSE LowerCh(Ch(s, 1)) \o toLowerCase(SubSeq(s, 2, Len(s)))

\* \b before position i: exactly one of s[i-1], s[i] is a word character
WordBoundary(s, i) == IsWord(Ch(s, i - 1)) # IsWord(Ch(s, i))

\* the literal lit (lower case) matches s at position i, ignoring case
MatchesAtI(s, i, lit) ==
    /\ i + Len(lit) - 1 <= Len(s)
    /\ toLowerCase(SubSeq(s, i, i + Len(lit) - 1)) = lit

\* String.prototype.includes
includes(s, sub) ==
    \E i \in 1..(Len(s) + 1) :
        /\ i + Len(sub) - 1 <= Len(s)
        /\ SubSeq(s, i, i + Len(sub) - 1) = sub

\* first position >= i that does not hold a digit
RECURSIVE SkipDigits(_, _)
SkipDigits(s, i) == IF IsDigit(Ch(s, i)) THEN SkipDigits(s, i + 1) ELSE i

\* first position >= i that does not hold white space
RECURSIVE SkipSpaces(_, _)
SkipSpaces(s, i) == IF IsSpace(Ch(s, i)) THEN SkipSpaces(s, i + 1) ELSE i

(***************************************************************************)
(* Numbers.                                                                *)
(***************************************************************************)
Infinity == MaxFinite + 1

B(n) == n * 10

NegInfinity == 0 - Infinity

\* the number that is not a number, outside the range as the infinities are
NaN == NegInfinity - 1

\* Number.isFinite
isFinite(x) == x \notin {Infinity, NegInfinity, NaN}

\* saturating product
Times(x, k) == IF x = Infinity \/ x * k > MaxFinite THEN Infinity ELSE x * k

\* value of a run of digits, in units; Infinity on overflow
RECURSIVE DigitsValue(_, _)
DigitsValue(s, acc) ==
    IF Len(s) = 0 THEN acc
    ELSE IF acc = Infinity \/ acc * 10 + DigitVal(Ch(s, 1)) > MaxFinite THEN Infinity
    ELSE DigitsValue(SubSeq(s, 2, Len(s)), acc * 10 + DigitVal(Ch(s, 1)))

\* Number.parseFloat of "<digits>" or "<digits>.<digits>", in tenths; only the
\* first fractional digit is kept
parseFloat(intPart, fracPart) ==
    LET whole == DigitsValue(intPart, 0)
        tenth == IF Len(fracPart) = 0 THEN 0 ELSE DigitVal(Ch(fracPart, 1))
    IN  IF whole = Infinity \/ whole * 10 + tenth > MaxFinite THEN Infinity
        ELSE whole * 10 + tenth


(***************************************************************************)
(* The name filters and the parameter-count extraction of the refresh      *)
(* loop.                                                                   *)
(***************************************************************************)
\* /\b<word>\b/i .test(s)
TestWord(s, word) ==
    \E i \in 1..Len(s) :
        /\ WordBoundary(s, i)
        /\ MatchesAtI(s, i, word)
        /\ WordBoundary(s, i + Len(word))

\* blacklistPatterns.some((re) => re.test(rawName))
blacklistPatterns == <<"baidu", "ernie">>

IsBlacklisted(rawName) == \E k \in 1..Len(blacklistPatterns) : TestWord(rawName, blacklistPatterns[k])

\* a test for the marker written without spaces
IsFreeTier_NoSpaces(modelName) == includes(toLowerCase(modelName), "(free)")

\* /\(\s*free\s*\)/i .test(modelName)
IsFreeTier(modelName) ==
    \E i \in 1..Len(modelName) :
        /\ Ch(modelName, i) = "("
        /\ LET j == SkipSpaces(modelName, i + 1)
           IN  /\ MatchesAtI(modelName, j, "free")
               /\ Ch(modelName, SkipSpaces(modelName, j + 4)) = ")"

NoMatch == [found |-> FALSE, next |-> 0, value |-> 0, unit |-> ""]

\* \s*([bBtT])\b tried at position p, after a numeral that starts at i and
\* whose integer part ends before j and fraction (if any) before p
UnitAt(s, i, j, p) ==
    LET q == SkipSpaces(s, p)
        u == Ch(s, q)
    IN  IF u \in {"b", "B", "t", "T"} /\ WordBoundary(s, q + 1)
        THEN [found |-> TRUE, next |-> q + 1,
              value |-> parseFloat(SubSeq(s, i, j - 1), SubSeq(s, j + 1, p - 1)),
              unit |-> u]
        ELSE NoMatch

\* one attempt of /\b(\d+(?:\.\d+)?)\s*([bBtT])\b/ at position i: the digit
\* runs are taken whole (a shorter run is followed by a digit, which is
\* neither white space nor a unit), the fraction is tried first and given up
\* when the rest does not match
MatchAt(s, i) ==
    IF ~(WordBoundary(s, i) /\ IsDigit(Ch(s, i))) THEN NoMatch
    ELSE LET j == SkipDigits(s, i)
             k == IF Ch(s, j) = "." /\ IsDigit(Ch(s, j + 1)) THEN SkipDigits(s, j + 1) ELSE j
             withFraction == UnitAt(s, i, j, k)
         IN  IF k > j /\ withFraction.found THEN withFraction ELSE UnitAt(s, i, j, j)

\* [...modelName.matchAll(parameterRegex)]: the matches from position i on,
\* left to right, each search resuming where the previous match ended
RECURSIVE matchAll(_, _)
matchAll(s, i) ==
    IF i > Len(s) THEN << >>
    ELSE LET m == MatchAt(s, i)
         IN  IF m.found THEN <<m>> \o matchAll(s, m.next) ELSE matchAll(s, i + 1)

\* the value whatever the unit
ParameterCount_NoTera(match) == match.value

\* unit === "t" ? value * 1000 : value
ParameterCount(match) ==
    IF LowerCh(match.unit) = "t" THEN Times(match.value, 1000) ELSE match.value

\* Math.max(...parameterCounts) of a non-empty list
RECURSIVE MathMax(_)
MathMax(counts) ==
    IF Len(counts) = 1 THEN counts[1]
    ELSE LET rest == MathMax(Tail(counts))
         IN  IF counts[1] >= rest THEN counts[1] ELSE rest

\* kWh per output token per billion parameters, 7.594e-9, in 1e-13 kWh per
\* tenth of a billion
energyConsumptionFactor == 7594

Emissions(parametersInBillions) ==
    IF isFinite(parametersInBillions) THEN parametersInBillions * energyConsumptionFactor
    ELSE Infinity

ModelData(name, params, emissions) ==
    [name |-> name, parameters_in_billions |-> params, emissions_per_token_kWh |-> emissions]

\* the loop body without the denylist
FromName_NoBlacklist(rawName) ==
    IF IsFreeTier(rawName) THEN << >>
    ELSE LET matches == matchAll(rawName, 1)
         IN  IF Len(matches) = 0 THEN << >>
             ELSE LET parametersInBillions ==
                          MathMax([k \in 1..Len(matches) |-> ParameterCount(matches[k])])
                  IN  IF parametersInBillions > 0
                      THEN <<ModelData(rawName, parametersInBillions, Emissions(parametersInBillions))>>
                      ELSE << >>

\* the entries one upstream name contributes to modelsWithEmissions (none or one)
FromName(rawName) ==
    IF IsBlacklisted(rawName) THEN << >>
    ELSE IF IsFreeTier(rawName) THEN << >>
    ELSE LET matches == matchAll(rawName, 1)
         IN  IF Len(matches) = 0 THEN << >>
             ELSE LET parametersInBillions ==
                          MathMax([k \in 1..Len(matches) |-> ParameterCount(matches[k])])
                  IN  IF parametersInBillions > 0
                      THEN <<ModelData(rawName, parametersInBillions, Emissions(parametersInBillions))>>
                      ELSE << >>

(***************************************************************************)
(* The upstream payload.  An element of the data array is an object with   *)
(* a name, an object without one, or null.                                 *)
(***************************************************************************)
Named(name) == [kind |-> "object", name |-> name]

Unnamed == [kind |-> "object", name |-> ""]

NullElement == [kind |-> "null", name |-> ""]

\* reading model.name of this element throws a TypeError
Throws(element) == element.kind = "null"

\* a loop that ends at the first element that yields no entry
RECURSIVE ExtractModels_StopsAtNoEntry(_)
ExtractModels_StopsAtNoEntry(data) ==
    IF Len(data) = 0 \/ FromName(data[1].name) = << >> THEN << >>
    ELSE FromName(data[1].name) \o ExtractModels_StopsAtNoEntry(Tail(data))

\* the loop over data.data
RECURSIVE ExtractModels(_)
ExtractModels(data) ==
    IF Len(data) = 0 THEN << >>
    ELSE FromName(data[1].name) \o ExtractModels(Tail(data))

(***************************************************************************)
(* The static tables.                                                      *)
(***************************************************************************)
fallbackModels ==
    << ModelData("GPT-4 Turbo", B(175), 13290000),
       ModelData("Claude-3 Opus", B(175), 13290000),
       ModelData("Llama 2 70B", B(70), 5316000),
       ModelData("Mixtral 8x7B", B(7), 531600),
       ModelData("Llama 2 13B", B(13), 987200),
       ModelData("Llama 2 7B", B(7), 531600),
       ModelData("Mistral 7B", B(7), 531600),
       ModelData("CodeLlama 34B", B(34), 2582000),
       ModelData("Vicuna 13B", B(13), 987200),
       ModelData("WizardLM 70B", B(70), 5316000),
       ModelData("DeepSeek V3 0324", B(675), B(675) * energyConsumptionFactor),
       ModelData("Kimi K2", B(1000), B(1000) * energyConsumptionFactor) >>

essentialModels ==
    << ModelData("DeepSeek V3 0324", B(675), B(675) * energyConsumptionFactor),
       ModelData("Kimi K2", B(1000), B(1000) * energyConsumptionFactor) >>

(***************************************************************************)
(* Normalisation of the extracted list.                                    *)
(***************************************************************************)
HasName(models, name) ==
    \E k \in 1..Len(models) : toLowerCase(models[k].name) = toLowerCase(name)

\* the loop over essentialModels stopping after its first element
AddEssentials_FirstOnly(models, k) ==
    IF HasName(models, essentialModels[1].name) THEN models
    ELSE Append(models, essentialModels[1])

\* the loop over essentialModels without the presence test
AddEssentials_Unconditional(models, k) == models \o essentialModels

\* the loop over essentialModels, from its k-th element on
RECURSIVE AddEssentials(_, _)
AddEssentials(models, k) ==
    IF k > Len(essentialModels) THEN models
    ELSE AddEssentials(IF HasName(models, essentialModels[k].name) THEN models
                       ELSE Append(models, essentialModels[k]),
                       k + 1)

\* the validity test without the finiteness test
IsValid_NoFiniteTest(m) == m.parameters_in_billions > 0

IsValid(m) == isFinite(m.parameters_in_billions) /\ m.parameters_in_billions > 0

\* models.filter(m => Number.isFinite(p) && p > 0)
FilterValid(models) == SelectSeq(models, IsValid)

\* the comparator (a, b) => b.parameters_in_billions - a.parameters_in_billions
\* is positive: a sorts after b
SortsAfter(a, b) == b.parameters_in_billions > a.parameters_in_billions

\* insert m into the sorted list, in front of the elements that compare equal
RECURSIVE Insert_BeforeEquals(_, _)
Insert_BeforeEquals(sorted, m) ==
    IF Len(sorted) = 0 THEN <<m>>
    ELSE IF ~SortsAfter(m, sorted[Len(sorted)])
         THEN Append(Insert_BeforeEquals(SubSeq(sorted, 1, Len(sorted) - 1), m),
                     sorted[Len(sorted)])
         ELSE Append(sorted, m)

\* insert m into the sorted list, behind every element it does not precede
RECURSIVE Insert(_, _)
Insert(sorted, m) ==
    IF Len(sorted) = 0 THEN <<m>>
    ELSE IF SortsAfter(sorted[Len(sorted)], m)
         THEN Append(Insert(SubSeq(sorted, 1, Len(sorted) - 1), m), sorted[Len(sorted)])
         ELSE Append(sorted, m)

\* Array.prototype.sort with that comparator: a stable sort
RECURSIVE sort(_)
sort(models) ==
    IF Len(models) = 0 THEN << >>
    ELSE Insert(sort(SubSeq(models, 1, Len(models) - 1)), models[Len(models)])

\* cleanModels, before the sort, from the list the loop has built
CleanModels(modelsWithEmissions) == FilterValid(AddEssentials(modelsWithEmissions, 1))


(***************************************************************************)
(* What the upstream can answer.                                           *)
(***************************************************************************)
FeedNames ==
    {"Llama 70B", "Qwen 0B", "Huge 99999B", "Baidu ERNIE 300B", "Gemma 7B (free)"}

Elements == {Named(n) : n \in FeedNames} \cup {Unnamed, NullElement}

RECURSIVE SeqsUpTo(_, _)
SeqsUpTo(S, n) ==
    IF n = 0 THEN {<< >>}
    ELSE LET shorter == SeqsUpTo(S, n - 1)
         IN  shorter \cup {Append(q, e) : q \in shorter, e \in S}

Feeds == SeqsUpTo(Elements, MaxFeedLen)

\* the parsed body: null, an object without data, an object whose data is not
\* an array, or an object with a data array
Payloads ==
    {[shape |-> sh, data |-> << >>] : sh \in {"null", "noData", "notArray"}}
        \cup {[shape |-> "array", data |-> f] : f \in Feeds}

\* modelsWithEmissions after the loop, for every data array the upstream can send
modelsWithEmissionsOf == [data \in Feeds |-> ExtractModels(data)]

\* cleanModels, for every data array the upstream can send
cleanModelsOf == [data \in Feeds |-> CleanModels(modelsWithEmissionsOf[data])]

\* the content-type header; "" stands for a response without one
ContentTypes == {"", "text/html", "application/json", "application/json; charset=utf-8"}

(***************************************************************************)
(* The state: the two module variables of the route, the clock, and for    *)
(* each request in progress where it is in GET, whether its abort timer is *)
(* pending, how many upstream calls it has issued, what it has logged and  *)
(* what it has answered.                                                   *)
(***************************************************************************)
VARIABLES cachedModels, lastFetched, now, pc, timerArmed, fetchCount, logged, response

\* The pure functions are exercised on their own: the data array handed to the
\* refresh and the catalog made of it, the arguments handed to calculateMetrics
\* and the metrics it returned.  The route leaves these four alone.
VARIABLES upstream, catalog, inputs, metrics

harness == <<upstream, catalog, inputs, metrics>>

vars == <<cachedModels, lastFetched, now, pc, timerArmed, fetchCount, logged, response,
          upstream, catalog, inputs, metrics>>

Requests == 1..NumRequests

oneDay == 24 * 60 * 60 * 1000

HalfDay == oneDay \div 2

\* Date.now() when the process starts: some time after 1970
BootTime == 2 * oneDay

Null == [isNull |-> TRUE, models |-> << >>]

Some(models) == [isNull |-> FALSE, models |-> models]

NoResponse == [status |-> 0, body |-> << >>]

\* NextResponse.json(body)
JsonResponse(body) == [status |-> 200, body |-> body]

\* no refresh has run on its own
NotRefreshed == [pass |-> 0, models |-> << >>]

NoInputs == [given |-> FALSE]

NotCalculated == [done |-> FALSE]

\* the module variables as the process starts, no request in progress
RouteAtRest ==
    /\ cachedModels = Null
    /\ lastFetched = 0
    /\ now = BootTime
    /\ pc = [r \in Requests |-> "idle"]
    /\ timerArmed = [r \in Requests |-> FALSE]
    /\ fetchCount = [r \in Requests |-> 0]
    /\ logged = [r \in Requests |-> "none"]
    /\ response = [r \in Requests |-> NoResponse]

Init ==
    /\ RouteAtRest
    /\ upstream = << >>
    /\ catalog = NotRefreshed
    /\ inputs = NoInputs
    /\ metrics = NotCalculated

\* the guard with the window closed one instant late
CacheUsable_Inclusive ==
    /\ ~cachedModels.isNull
    /\ now - lastFetched <= oneDay
    /\ Len(FilterValid(cachedModels.models)) = Len(cachedModels.models)

\* the test that guards the cached answer
CacheUsable ==
    /\ ~cachedModels.isNull
    /\ now - lastFetched < oneDay
    /\ Len(FilterValid(cachedModels.models)) = Len(cachedModels.models)

\* return NextResponse.json(body), after logging what
Return(r, body, what) ==
    /\ response' = [response EXCEPT ![r] = JsonResponse(body)]
    /\ logged' = [logged EXCEPT ![r] = what]
    /\ pc' = [pc EXCEPT ![r] = "done"]

\* the store without the time stamp
StoreCache_StaleStamp(models) ==
    /\ cachedModels' = Some(models)
    /\ lastFetched' = lastFetched

\* cachedModels = models; lastFetched = Date.now()
StoreCache(models) ==
    /\ cachedModels' = Some(models)
    /\ lastFetched' = now

\* an early return with the fallback data: nothing is stored
ReturnFallback(r, what) ==
    /\ Return(r, fallbackModels, what)
    /\ UNCHANGED <<cachedModels, lastFetched>>

\* a catch block that empties the cache
Catch_DropsCache(r) ==
    /\ cachedModels' = Null
    /\ lastFetched' = 0
    /\ Return(r, fallbackModels, "error")

\* a catch block that answers with an error status
Catch_ErrorStatus(r) ==
    /\ StoreCache(fallbackModels)
    /\ response' = [response EXCEPT ![r] = [status |-> 500, body |-> << >>]]
    /\ logged' = [logged EXCEPT ![r] = "error"]
    /\ pc' = [pc EXCEPT ![r] = "done"]

\* the catch block
Catch(r) ==
    /\ StoreCache(fallbackModels)
    /\ Return(r, fallbackModels, "error")

\* GET with a single-flight guard: while another fetch is in flight, a request
\* that cannot use the cache answers with the fallback data and fetches nothing
GetStart_SingleFlight(r) ==
    /\ pc[r] = "idle"
    /\ IF CacheUsable
       THEN /\ Return(r, cachedModels.models, "none")
            /\ UNCHANGED <<timerArmed, fetchCount>>
       ELSE IF \E q \in Requests \ {r} : pc[q] \in {"awaitFetch", "awaitJson"}
       THEN /\ Return(r, fallbackModels, "none")
            /\ UNCHANGED <<timerArmed, fetchCount>>
       ELSE /\ pc' = [pc EXCEPT ![r] = "awaitFetch"]
            /\ timerArmed' = [timerArmed EXCEPT ![r] = TRUE]
            /\ fetchCount' = [fetchCount EXCEPT ![r] = @ + 1]
            /\ UNCHANGED <<logged, response>>
    /\ UNCHANGED <<cachedModels, lastFetched, now, harness>>

\* GET up to its first await: answer from the cache, or arm the timer and
\* call fetch
GetStart(r) ==
    /\ pc[r] = "idle"
    /\ IF CacheUsable
       THEN /\ Return(r, cachedModels.models, "none")
            /\ UNCHANGED <<timerArmed, fetchCount>>
       ELSE /\ pc' = [pc EXCEPT ![r] = "awaitFetch"]
            /\ timerArmed' = [timerArmed EXCEPT ![r] = TRUE]
            /\ fetchCount' = [fetchCount EXCEPT ![r] = @ + 1]
            /\ UNCHANGED <<logged, response>>
    /\ UNCHANGED <<cachedModels, lastFetched, now, harness>>

\* fetch resolves with the response headers: the timer is cleared, the status
\* and the content type are checked, the body is awaited
FetchResolveWith(r, ok, contentType) ==
    /\ pc[r] = "awaitFetch"
    /\ timerArmed' = [timerArmed EXCEPT ![r] = FALSE]
    /\ IF ~ok THEN ReturnFallback(r, "warnStatus")
       ELSE IF contentType = "" \/ ~includes(contentType, "application/json")
            THEN ReturnFallback(r, "warnContentType")
       ELSE /\ pc' = [pc EXCEPT ![r] = "awaitJson"]
            /\ UNCHANGED <<cachedModels, lastFetched, logged, response>>
    /\ UNCHANGED <<now, fetchCount, harness>>

FetchResolve(r) == \E ok \in BOOLEAN, contentType \in ContentTypes : FetchResolveWith(r, ok, contentType)

\* fetch rejects (network error): clearTimeout is skipped, the catch block runs
FetchReject(r) ==
    /\ pc[r] = "awaitFetch"
    /\ Catch(r)
    /\ UNCHANGED <<now, timerArmed, fetchCount, harness>>

\* the 10 second timer fires and calls controller.abort(): a fetch still
\* pending rejects and the catch block runs; otherwise nothing happens
TimerFire(r) ==
    /\ timerArmed[r]
    /\ timerArmed' = [timerArmed EXCEPT ![r] = FALSE]
    /\ IF pc[r] = "awaitFetch" THEN Catch(r)
       ELSE UNCHANGED <<cachedModels, lastFetched, pc, logged, response>>
    /\ UNCHANGED <<now, fetchCount, harness>>

\* response.json() resolves with the parsed body: the rest of the try block
JsonResolveWith(r, payload) ==
    /\ pc[r] = "awaitJson"
    /\ IF payload.shape # "array" THEN ReturnFallback(r, "warnStructure")
       ELSE IF \E k \in 1..Len(payload.data) : Throws(payload.data[k]) THEN Catch(r)
       ELSE LET cleanModels == cleanModelsOf[payload.data]
            IN  IF Len(cleanModels) > 0
                THEN /\ StoreCache(sort(cleanModels))
                     /\ Return(r, sort(cleanModels), "none")
                ELSE /\ StoreCache(fallbackModels)
                     /\ Return(r, fallbackModels, "warnNoModels")
    /\ UNCHANGED <<now, timerArmed, fetchCount, harness>>

JsonResolve(r) == \E payload \in Payloads : JsonResolveWith(r, payload)

\* response.json() rejects (the body is not JSON, the connection breaks)
JsonReject(r) ==
    /\ pc[r] = "awaitJson"
    /\ Catch(r)
    /\ UNCHANGED <<now, timerArmed, fetchCount, harness>>

\* the answer has been delivered and nothing of the request is left
Finish(r) ==
    /\ pc[r] = "done"
    /\ ~timerArmed[r]
    /\ pc' = [pc EXCEPT ![r] = "idle"]
    /\ fetchCount' = [fetchCount EXCEPT ![r] = 0]
    /\ logged' = [logged EXCEPT ![r] = "none"]
    /\ response' = [response EXCEPT ![r] = NoResponse]
    /\ UNCHANGED <<cachedModels, lastFetched, now, timerArmed, harness>>

\* the clock advances
Tick ==
    /\ now < BootTime + MaxTicks * HalfDay
    /\ now' = now + HalfDay
    /\ UNCHANGED <<cachedModels, lastFetched, pc, timerArmed, fetchCount, logged, response, harness>>

Next ==
    \/ \E r \in Requests : GetStart(r)
    \/ \E r \in Requests : FetchResolve(r)
    \/ \E r \in Requests : FetchReject(r)
    \/ \E r \in Requests : TimerFire(r)
    \/ \E r \in Requests : JsonReject(r)
    \/ \E r \in Requests : JsonResolve(r)
    \/ \E r \in Requests : Finish(r)
    \/ Tick

Spec == Init /\ [][Next]_vars

\* the runtime fires every pending timer; the upstream and the clients owe nothing
FairSpec == Spec /\ \A r \in Requests : WF_vars(TimerFire(r))

TypeOK ==
    /\ cachedModels.isNull \in BOOLEAN
    /\ lastFetched \in 0..(BootTime + MaxTicks * HalfDay)
    /\ now \in BootTime..(BootTime + MaxTicks * HalfDay)
    /\ pc \in [Requests -> {"idle", "awaitFetch", "awaitJson", "done"}]
    /\ timerArmed \in [Requests -> BOOLEAN]
    /\ fetchCount \in [Requests -> 0..1]
    /\ logged \in [Requests -> {"none", "warnStatus", "warnContentType", "warnStructure", "warnNoModels", "error"}]
    /\ \A r \in Requests : response[r].status \in {0, 200}


(***************************************************************************)
(* Vocabulary of the properties.                                           *)
(***************************************************************************)
\* request r leaves GET's first segment in this step
Starts(r) == pc[r] = "idle" /\ pc'[r] # "idle"

\* request r returns in this step
Returns(r) == pc[r] # "done" /\ pc'[r] = "done"

\* request r returns in this step from a refresh that failed
FailsRefresh(r) == Returns(r) /\ logged'[r] # "none"

InFlight(r) == pc[r] \in {"awaitFetch", "awaitJson"}

InWindow == ~cachedModels.isNull /\ now - lastFetched < oneDay

PositiveFinite(m) == m.parameters_in_billions > 0 /\ m.parameters_in_billions <= MaxFinite

AllPositiveFinite(models) == \A k \in 1..Len(models) : PositiveFinite(models[k])

\* some entry of the catalog carries a name the upstream sent
HasUpstreamEntry(models) == \E k \in 1..Len(models) : models[k].name \in FeedNames

\* the names that occur in the model
KnownNames ==
    FeedNames \cup {fallbackModels[k].name : k \in 1..Len(fallbackModels)}
              \cup {essentialModels[k].name : k \in 1..Len(essentialModels)}

\* the largest unit-adjusted value among the tokens of each name; -1 without a token
largestValueOf ==
    [n \in KnownNames |->
        LET matches == matchAll(n, 1)
        IN  IF Len(matches) = 0 THEN -1
            ELSE MathMax([k \in 1..Len(matches) |-> ParameterCount(matches[k])])]

\* the names the denylist and the free-tier marker let through
passesNameFilters == [n \in KnownNames |-> ~IsBlacklisted(n) /\ ~IsFreeTier(n)]

(***************************************************************************)
(* C1.  Every refresh failure (bad status, bad content type, payload       *)
(* without a data array, network error, abort, parse error) stores the     *)
(* fallback table in the cache and sets lastFetched to the current time.   *)
(* Stated of the step in which the failing GET returns.  The code          *)
(* violates it: the three early returns store nothing.                     *)
(***************************************************************************)
C1_FailureStoresFallback ==
    [][\A r \in Requests :
          FailsRefresh(r) => cachedModels' = Some(fallbackModels) /\ lastFetched' = now]_vars

(***************************************************************************)
(* C2.  A GET that finds a catalog in the cache, less than 24 hours old    *)
(* and with valid entries only, returns exactly that catalog and calls     *)
(* the upstream not at all; a GET that finds the cache empty or 24 hours   *)
(* old or more calls the upstream exactly once.                            *)
(***************************************************************************)
C2_FreshServedStaleFetchedOnce ==
    [][\A r \in Requests :
          /\ Starts(r) /\ InWindow /\ AllPositiveFinite(cachedModels.models)
                => /\ pc'[r] = "done"
                   /\ response'[r] = [status |-> 200, body |-> cachedModels.models]
                   /\ fetchCount'[r] = 0
          /\ Starts(r) /\ (cachedModels.isNull \/ now - lastFetched >= oneDay)
                => pc'[r] = "awaitFetch" /\ fetchCount'[r] = 1
          /\ pc[r] # "idle" /\ pc'[r] # "idle" => fetchCount'[r] = fetchCount[r]]_vars

\* one request has been answered from the cache without a fetch; the clock has
\* since passed the window and another request has issued its one fetch
C2_Witness ==
    \E r, q \in Requests :
        /\ pc[r] = "done" /\ fetchCount[r] = 0 /\ response[r].body = cachedModels.models
        /\ ~cachedModels.isNull /\ now - lastFetched >= oneDay
        /\ pc[q] = "awaitFetch" /\ fetchCount[q] = 1

(***************************************************************************)
(* C3.  Every GET whose refresh failed answers with status 200 and the     *)
(* fallback table, which is not empty; no GET answers with another status. *)
(***************************************************************************)
C3_FailureAnswersFallback ==
    \A r \in Requests :
        /\ pc[r] = "done" => response[r].status = 200
        /\ pc[r] = "done" /\ logged[r] # "none"
              => response[r].body = fallbackModels /\ Len(response[r].body) > 0

\* one request has returned after a bad status, another after an exception
C3_Witness ==
    \E r, q \in Requests :
        /\ pc[r] = "done" /\ logged[r] = "warnStatus"
        /\ pc[q] = "done" /\ logged[q] = "error"

(***************************************************************************)
(* C4.  When the payload is well formed and none of its entries survives   *)
(* the filters (the empty data array included), GET answers with the       *)
(* fallback table and caches it.  The code violates it: the essential      *)
(* models are injected before the emptiness test.                          *)
(***************************************************************************)
C4_AllFilteredGivesFallback ==
    [][\A r \in Requests : \A payload \in Payloads :
          ( /\ payload.shape = "array"
            /\ \A k \in 1..Len(payload.data) : ~Throws(payload.data[k])
            /\ modelsWithEmissionsOf[payload.data] = << >>
            /\ JsonResolveWith(r, payload) )
          => response'[r].body = fallbackModels /\ cachedModels' = Some(fallbackModels)]_vars

(***************************************************************************)
(* C5.  Every entry of the cached catalog and of every catalog a GET has   *)
(* returned has a finite parameters_in_billions greater than zero, and no  *)
(* entry carries an upstream name whose largest extracted value is zero    *)
(* or not finite.                                                          *)
(***************************************************************************)
C5_EntriesPositiveFinite ==
    LET Good(models) ==
            \A k \in 1..Len(models) :
                /\ PositiveFinite(models[k])
                /\ models[k].name \in FeedNames
                      => largestValueOf[models[k].name] \notin {0, Infinity}
    IN  /\ Good(cachedModels.models)
        /\ \A r \in Requests : Good(response[r].body)

\* a refresh has stored and returned a catalog with an entry taken from the
\* upstream, whose names include one of value zero and one that overflows
C5_Witness ==
    /\ \E n \in FeedNames : largestValueOf[n] = 0
    /\ \E n \in FeedNames : largestValueOf[n] = Infinity
    /\ \E r \in Requests :
          /\ pc[r] = "done" /\ fetchCount[r] = 1 /\ logged[r] = "none"
          /\ HasUpstreamEntry(response[r].body)
          /\ cachedModels = Some(response[r].body)

(***************************************************************************)
(* C6.  There is no single-flight guard: a GET that finds the cache empty  *)
(* or stale while another request's fetch is in flight issues a fetch of   *)
(* its own.                                                                *)
(***************************************************************************)
C6_NoSingleFlight ==
    [][\A r \in Requests :
          ( /\ Starts(r)
            /\ cachedModels.isNull \/ now - lastFetched >= oneDay
            /\ \E q \in Requests \ {r} : InFlight(q) )
          => pc'[r] = "awaitFetch" /\ fetchCount'[r] = fetchCount[r] + 1]_vars

\* two fetches are in flight at once
C6_Witness ==
    \E r, q \in Requests :
        r # q /\ InFlight(r) /\ InFlight(q) /\ fetchCount[r] = 1 /\ fetchCount[q] = 1

(***************************************************************************)
(* C7.  The cached catalog and lastFetched change together: a step that    *)
(* changes either is the return of one request, and leaves the catalog     *)
(* that request returns in the cache and the current time in lastFetched.  *)
(***************************************************************************)
C7_StoreIsAtomic ==
    [][(cachedModels' # cachedModels \/ lastFetched' # lastFetched)
          => \E r \in Requests :
                /\ Returns(r)
                /\ cachedModels' = Some(response'[r].body)
                /\ lastFetched' = now]_vars

\* one request has stored an upstream catalog while another is in flight
C7_Witness ==
    \E r, q \in Requests :
        /\ pc[r] = "done" /\ logged[r] = "none" /\ fetchCount[r] = 1
        /\ cachedModels = Some(response[r].body) /\ lastFetched = now
        /\ InFlight(q)

(***************************************************************************)
(* C8.  The upstream call is guarded by the timer until the whole          *)
(* exchange, headers and body, is over, so every GET that has called the   *)
(* upstream returns.  The code violates it: the timer is cleared when the  *)
(* headers arrive, and a body that never completes is awaited for ever.    *)
(***************************************************************************)
C8_EveryGetReturns == \A r \in Requests : InFlight(r) ~> pc[r] = "done"

(***************************************************************************)
(* C9.  A GET whose refresh failed leaves the cached catalog and           *)
(* lastFetched unchanged.  The code violates it: the catch block stores    *)
(* the fallback table and the current time.                                *)
(***************************************************************************)
C9_FailureLeavesCache ==
    [][\A r \in Requests :
          FailsRefresh(r) => cachedModels' = cachedModels /\ lastFetched' = lastFetched]_vars

DataNames ==
    {"Llama 70B", "llama 70b", "Qwen 70B", "Big 1T 70B", "Nano 9B 2t", "Mixtral 8x7B",
     "Phi 1.5B", "Kimi K2", "KIMI K2", "deepseek v3 0324", "Chat",
     "ERNIE 4.5 300B", "Baidu Chat 7B", "Qwen 7B ( Free )", "Model 7 B"}

DataElements == {Named(n) : n \in DataNames} \cup {Unnamed}

DataArrays == SeqsUpTo(DataElements, MaxDataLen)

\* lines 130-160: essentials, validity filter, sort; the fallback table when
\* nothing is left
Normalize(modelsWithEmissions) ==
    LET cleanModels == CleanModels(modelsWithEmissions)
    IN  IF Len(cleanModels) > 0 THEN sort(cleanModels) ELSE fallbackModels

\* lines 83-160: the catalog the try block stores and returns for data.data
Refresh(data) == Normalize(ExtractModels(data))

NormInit ==
    /\ RouteAtRest
    /\ upstream \in DataArrays
    /\ catalog = NotRefreshed
    /\ inputs = NoInputs
    /\ metrics = NotCalculated

\* the refresh runs on the data array
RefreshData ==
    /\ catalog.pass = 0
    /\ catalog' = [pass |-> 1, models |-> Refresh(upstream)]
    /\ UNCHANGED <<cachedModels, lastFetched, now, pc, timerArmed, fetchCount, logged,
                   response, upstream, inputs, metrics>>

\* the entries of the catalog go through lines 130-160 once more
NormalizeAgain ==
    /\ catalog.pass = 1
    /\ catalog' = [pass |-> 2, models |-> Normalize(catalog.models)]
    /\ UNCHANGED <<cachedModels, lastFetched, now, pc, timerArmed, fetchCount, logged,
                   response, upstream, inputs, metrics>>

NormNext == RefreshData \/ NormalizeAgain

NormSpec == NormInit /\ [][NormNext]_vars

EssentialNames == {essentialModels[k].name : k \in 1..Len(essentialModels)}

\* the positions of the catalog whose name equals name, ignoring case
Occurrences(models, name) ==
    {k \in 1..Len(models) : toLowerCase(models[k].name) = toLowerCase(name)}

\* how often the data array lists name, ignoring case
Listed(data, name) ==
    Cardinality({k \in 1..Len(data) : toLowerCase(data[k].name) = toLowerCase(name)})

(***************************************************************************)
(* C11.  Whatever the data array lists, the refreshed catalog contains     *)
(* exactly one entry named "DeepSeek V3 0324" and exactly one named        *)
(* "Kimi K2", names compared ignoring case: also when the data array lists *)
(* such a name itself, once or several times, in whatever case.            *)
(***************************************************************************)
C11_OneEntryPerEssential ==
    catalog.pass = 1
        => \A name \in {"DeepSeek V3 0324", "Kimi K2"} :
              Cardinality(Occurrences(catalog.models, name)) = 1

\* the data array lists Kimi K2 twice, in two cases, and the catalog made of it
\* holds the name once
C11_Witness ==
    /\ catalog.pass = 1
    /\ Listed(upstream, "Kimi K2") = 2
    /\ upstream[1].name # upstream[2].name
    /\ Cardinality(Occurrences(catalog.models, "Kimi K2")) = 1


(***************************************************************************)
(* C12.  The refreshed catalog never holds two entries whose names are     *)
(* equal ignoring case; of a name the data array lists more than once,     *)
(* the first listed entry (of those that yield a candidate) is the one     *)
(* kept.  The code violates it: nothing between the loop and the sort      *)
(* removes a repeated name.                                                *)
(***************************************************************************)
C12_NoDuplicateNames ==
    catalog.pass = 1
        => /\ \A i, j \in 1..Len(catalog.models) :
                  toLowerCase(catalog.models[i].name) = toLowerCase(catalog.models[j].name)
                      => i = j
           /\ \A i \in 1..Len(catalog.models) : \A k \in 1..Len(upstream) :
                  ( /\ toLowerCase(upstream[k].name) = toLowerCase(catalog.models[i].name)
                    /\ FromName(upstream[k].name) # << >>
                    /\ \A h \in 1..(k - 1) :
                          toLowerCase(upstream[h].name) # toLowerCase(upstream[k].name) )
                  => catalog.models[i].name = upstream[k].name


(***************************************************************************)
(* C13.  Normalisation is idempotent: when the entries of a refreshed      *)
(* catalog go through the normalisation steps again (essential injection,  *)
(* validity filter, descending sort), the result is the same sequence of   *)
(* entries in the same order.                                              *)
(***************************************************************************)
C13_NormalizeIdempotent ==
    [][NormalizeAgain => catalog'.models = catalog.models]_vars

\* a catalog with upstream entries of equal counts has been normalised again
C13_Witness ==
    /\ catalog.pass = 2
    /\ \E i, j \in 1..Len(catalog.models) :
          /\ i < j
          /\ catalog.models[i].parameters_in_billions = catalog.models[j].parameters_in_billions
          /\ catalog.models[i].name \notin EssentialNames
          /\ catalog.models[j].name \notin EssentialNames


(***************************************************************************)
(* C14.  The refreshed catalog is ordered by non-increasing                *)
(* parameters_in_billions, and entries of equal count keep the order they  *)
(* had before the sort: the order of the data array, the injected          *)
(* essential models behind the entries of the data array.                  *)
(***************************************************************************)
\* the names in the order they had before the sort: those of the data array
\* that made it into the catalog, then the two injected essential models
C14_Prior ==
    LET names == [k \in 1..Len(upstream) |-> upstream[k].name]
        Kept(n) == /\ n \notin {"DeepSeek V3 0324", "Kimi K2"}
                   /\ \E i \in 1..Len(catalog.models) : catalog.models[i].name = n
    IN  SelectSeq(names, Kept) \o <<"DeepSeek V3 0324", "Kimi K2">>

\* the names of the catalog entries of count v, in catalog order
C14_NamesOfCount(v) ==
    LET Has(m) == m.parameters_in_billions = v
        group == SelectSeq(catalog.models, Has)
    IN  [k \in 1..Len(group) |-> group[k].name]

C14_SortedAndStable ==
    catalog.pass = 1
        => /\ \A i, j \in 1..Len(catalog.models) :
                  i < j => catalog.models[i].parameters_in_billions
                               >= catalog.models[j].parameters_in_billions
           /\ \A i \in 1..Len(catalog.models) :
                  LET group == C14_NamesOfCount(catalog.models[i].parameters_in_billions)
                      InGroup(n) == \E k \in 1..Len(group) : group[k] = n
                  IN  group = SelectSeq(C14_Prior, InGroup)

\* two different upstream names of equal count stand in the catalog in the
\* order of the data array, which is not the alphabetical one
C14_Witness ==
    /\ catalog.pass = 1
    /\ Len(upstream) = 2
    /\ upstream[1].name = "Qwen 70B" /\ upstream[2].name = "Llama 70B"
    /\ \E i \in 1..(Len(catalog.models) - 1) :
          /\ catalog.models[i].name = "Qwen 70B"
          /\ catalog.models[i + 1].name = "Llama 70B"


(***************************************************************************)
(* C15.  The count extracted from a name is the largest of its             *)
(* number+unit tokens, each converted to billions: a b or B token counts   *)
(* as its value, a t or T token as its value times 1000.  A single token   *)
(* yields its converted value; of 1T and 70B, 1T wins.  Stated of the      *)
(* names whose tokens stand between spaces.                                *)
(***************************************************************************)
\* the tokens of those names, read off the name: the number in tenths, the unit
C15_Tokens ==
    [n \in {"Llama 70B", "llama 70b", "Qwen 70B", "Big 1T 70B", "Nano 9B 2t", "Phi 1.5B"} |->
        CASE n = "Llama 70B"  -> {<<700, "B">>}
          [] n = "llama 70b"  -> {<<700, "b">>}
          [] n = "Qwen 70B"   -> {<<700, "B">>}
          [] n = "Big 1T 70B" -> {<<10, "T">>, <<700, "B">>}
          [] n = "Nano 9B 2t" -> {<<90, "B">>, <<20, "t">>}
          [] n = "Phi 1.5B"   -> {<<15, "B">>}]

C15_InBillions(token) == IF token[2] \in {"t", "T"} THEN token[1] * 1000 ELSE token[1]

C15_Largest(n) ==
    CHOOSE v \in {C15_InBillions(t) : t \in C15_Tokens[n]} :
        \A t \in C15_Tokens[n] : v >= C15_InBillions(t)

C15_CountIsLargestToken ==
    catalog.pass = 1
        => \A k \in 1..Len(upstream) :
              upstream[k].name \in DOMAIN C15_Tokens
                  => \E i \in 1..Len(catalog.models) :
                        /\ catalog.models[i].name = upstream[k].name
                        /\ catalog.models[i].parameters_in_billions
                               = C15_Largest(upstream[k].name)
                        /\ \A j \in 1..Len(catalog.models) :
                              catalog.models[j].name = upstream[k].name
                                  => catalog.models[j].parameters_in_billions
                                         = C15_Largest(upstream[k].name)

\* the data array lists a name with the tokens 1T and 70B and one with 9B and
\* 2t; the catalog holds them with 1000 and 2000 billion
C15_Witness ==
    /\ catalog.pass = 1
    /\ \E i, j \in 1..Len(catalog.models) :
          /\ catalog.models[i].name = "Big 1T 70B"
          /\ catalog.models[i].parameters_in_billions = B(1000)
          /\ catalog.models[j].name = "Nano 9B 2t"
          /\ catalog.models[j].parameters_in_billions = B(2000)


(***************************************************************************)
(* C16.  An upstream entry whose name holds no number+unit token, the      *)
(* entry without a name or with the empty name included, yields no         *)
(* candidate and is not in the refreshed catalog (an entry of that name in *)
(* the catalog is the injected essential model), and the other entries of  *)
(* the same data array are processed all the same.                         *)
(***************************************************************************)
\* the names of the data arrays that hold no token
C16_NoToken == {"", "Chat", "Kimi K2", "KIMI K2", "deepseek v3 0324"}

C16_NoTokenNoEntry ==
    catalog.pass = 1
        => \A k \in 1..Len(upstream) :
              /\ upstream[k].name \in C16_NoToken
                    => \A i \in 1..Len(catalog.models) :
                          catalog.models[i].name = upstream[k].name
                              => /\ catalog.models[i].name \in {"DeepSeek V3 0324", "Kimi K2"}
                                 /\ catalog.models[i].parameters_in_billions \in {B(675), B(1000)}
              /\ upstream[k].name \in DOMAIN C15_Tokens
                    => \E i \in 1..Len(catalog.models) :
                          catalog.models[i].name = upstream[k].name

\* an entry without a name comes first, one with a token second: the catalog
\* holds the second and the two essential models, nothing else
C16_Witness ==
    /\ catalog.pass = 1
    /\ Len(upstream) = 2
    /\ upstream[1] = Unnamed
    /\ upstream[2].name = "Phi 1.5B"
    /\ Len(catalog.models) = 3
    /\ catalog.models[3].name = "Phi 1.5B"


(***************************************************************************)
(* C17.  The token that follows a mixture-of-experts multiplier is         *)
(* matched: the name "Mixtral 8x7B" yields the count 7 (the 8 in front of  *)
(* the x is no token), so the refreshed catalog holds the entry with 7     *)
(* billion.  The code violates it: between x and 7 there is no word        *)
(* boundary, the expression matches nothing in the name and the entry is   *)
(* dropped.                                                                *)
(***************************************************************************)
C17_MoETokenMatched ==
    catalog.pass = 1
        => \A k \in 1..Len(upstream) :
              upstream[k].name = "Mixtral 8x7B"
                  => \E i \in 1..Len(catalog.models) :
                        /\ catalog.models[i].name = "Mixtral 8x7B"
                        /\ catalog.models[i].parameters_in_billions = B(7)


(***************************************************************************)
(* The numbers of the calculator.  A finite number is the exact fraction   *)
(* n / d * 10^e in lowest terms, d free of the factors 2 and 5 and n of    *)
(* the factor 10, so that equal numbers are equal records; NaN and the two *)
(* infinities are values of their own.  The rounding of doubles is not     *)
(* modelled.                                                               *)
(***************************************************************************)
Abs(x) == IF x < 0 THEN 0 - x ELSE x

RECURSIVE GCD(_, _)
GCD(a, b) == IF b = 0 THEN a ELSE GCD(b, a % b)

\* <<n, e>> with the factors of ten of n # 0 moved into the exponent
RECURSIVE StripTens(_, _)
StripTens(n, e) == IF n % 10 = 0 THEN StripTens(n \div 10, e + 1) ELSE <<n, e>>

Zero == [kind |-> "finite", n |-> 0, d |-> 1, e |-> 0]

NumNaN == [kind |-> "NaN", n |-> 0, d |-> 1, e |-> 0]

\* Infinity (sign 1) and -Infinity (sign -1)
NumInfinity(sign) == [kind |-> "infinite", n |-> sign, d |-> 1, e |-> 0]

\* <<n, d, e>> with the factors 2 and 5 of d > 0 moved into the exponent
RECURSIVE ClearDenominator(_, _, _)
ClearDenominator(n, d, e) ==
    IF d % 2 = 0 THEN ClearDenominator(n * 5, d \div 2, e - 1)
    ELSE IF d % 5 = 0 THEN ClearDenominator(n * 2, d \div 5, e - 1)
    ELSE <<n, d, e>>

\* n / d * 10^e, d # 0
Fin(n, d, e) ==
    IF n = 0 THEN Zero
    ELSE LET g == GCD(Abs(n), Abs(d))
             cleared == ClearDenominator((IF d < 0 THEN 0 - n ELSE n) \div g, Abs(d) \div g, e)
             num == StripTens(cleared[1], cleared[3])
         IN  [kind |-> "finite", n |-> num[1], d |-> cleared[2], e |-> num[2]]

Sign(x) == IF x.n < 0 THEN 0 - 1 ELSE 1

IsZero(x) == x.kind = "finite" /\ x.n = 0

\* x * y
Mul(x, y) ==
    IF x.kind = "NaN" \/ y.kind = "NaN" THEN NumNaN
    ELSE IF x.kind = "infinite" \/ y.kind = "infinite"
         THEN IF IsZero(x) \/ IsZero(y) THEN NumNaN ELSE NumInfinity(Sign(x) * Sign(y))
    ELSE Fin(x.n * y.n, x.d * y.d, x.e + y.e)

\* x / y
Div(x, y) ==
    IF x.kind = "NaN" \/ y.kind = "NaN" THEN NumNaN
    ELSE IF x.kind = "infinite"
         THEN IF y.kind = "infinite" THEN NumNaN ELSE NumInfinity(Sign(x) * Sign(y))
    ELSE IF y.kind = "infinite" THEN Zero
    ELSE IF IsZero(y) THEN IF IsZero(x) THEN NumNaN ELSE NumInfinity(Sign(x))
    ELSE Fin(x.n * y.d, x.d * y.n, x.e - y.e)

\* the number a count in tenths of a billion stands for, in billions
Billions(p) ==
    IF p = NaN THEN NumNaN
    ELSE IF p = Infinity THEN NumInfinity(1)
    ELSE IF p = NegInfinity THEN NumInfinity(0 - 1)
    ELSE Fin(p, 10, 0)


(***************************************************************************)
(* The metrics engine.                                                     *)
(***************************************************************************)
\* carbon intensities in thousandths of a kg CO2 per kWh
regions ==
    << [name |-> "Iceland (Renewable Heavy)", carbonIntensity |-> Fin(28, 1000, 0)],
       [name |-> "Norway (Hydroelectric)", carbonIntensity |-> Fin(32, 1000, 0)],
       [name |-> "France (Nuclear Heavy)", carbonIntensity |-> Fin(27, 1000, 0)],
       [name |-> "Sweden (Mixed Renewable)", carbonIntensity |-> Fin(39, 1000, 0)],
       [name |-> "Canada (Mixed)", carbonIntensity |-> Fin(137, 1000, 0)],
       [name |-> "Google europe-north1", carbonIntensity |-> Fin(88, 1000, 0)],
       [name |-> "Brazil (Hydro Heavy)", carbonIntensity |-> Fin(103, 1000, 0)],
       [name |-> "United Kingdom", carbonIntensity |-> Fin(237, 1000, 0)],
       [name |-> "United States (Average)", carbonIntensity |-> Fin(345, 1000, 0)],
       [name |-> "Google us-central1", carbonIntensity |-> Fin(243, 1000, 0)],
       [name |-> "Japan", carbonIntensity |-> Fin(463, 1000, 0)],
       [name |-> "Germany", carbonIntensity |-> Fin(321, 1000, 0)],
       [name |-> "China (Coal Heavy)", carbonIntensity |-> Fin(510, 1000, 0)],
       [name |-> "India (Coal Heavy)", carbonIntensity |-> Fin(636, 1000, 0)],
       [name |-> "Australia (Coal Heavy)", carbonIntensity |-> Fin(482, 1000, 0)],
       [name |-> "South Africa (Coal Heavy)", carbonIntensity |-> Fin(687, 1000, 0)] >>

\* model: ModelData | null
NoModel ==
    [isNull |-> TRUE, name |-> "", parameters_in_billions |-> 0, emissions_per_token_kWh |-> 0]

Model(m) ==
    [isNull |-> FALSE, name |-> m.name, parameters_in_billions |-> m.parameters_in_billions,
     emissions_per_token_kWh |-> m.emissions_per_token_kWh]

zeroResult ==
    [totalCost |-> Zero, costPer1M |-> Zero, totalEnergyKwh |-> Zero,
     carbonEmissionsKg |-> Zero, totalFlops |-> Zero, energyPerToken |-> Zero]

\* an efficiency ten times higher
baseEfficiency_Tenfold == Fin(659, 1, 10)

\* FLOPs per Joule, 6.59e11
baseEfficiency == Fin(659, 1, 9)

\* a table that gives every precision the same efficiency
precisionMultipliers_Flat == [FP32 |-> Fin(1, 1, 0), FP16 |-> Fin(1, 1, 0), FP8 |-> Fin(1, 1, 0)]

precisionMultipliers == [FP32 |-> Fin(1, 1, 0), FP16 |-> Fin(2, 1, 0), FP8 |-> Fin(4, 1, 0)]

\* guards that also turn away a model by its name
RejectsModel_ByName(model) ==
    \/ model.isNull
    \/ ~isFinite(model.parameters_in_billions)
    \/ model.parameters_in_billions <= 0
    \/ model.name = "GPT-4 Turbo"

\* the first guard only
RejectsModel_NullOnly(model) == model.isNull

\* the two guards that return zeroResult
RejectsModel(model) ==
    \/ model.isNull
    \/ ~isFinite(model.parameters_in_billions)
    \/ model.parameters_in_billions <= 0

\* a variant that takes every call to be one of a million tokens
calculateMetrics_MillionTokens(a) ==
    IF RejectsModel(a.model) THEN zeroResult
    ELSE LET totalFlops ==
                 Mul(Mul(Mul(Fin(2, 1, 0), Billions(a.model.parameters_in_billions)),
                         Fin(1, 1, 9)),
                     a.tokenCount)
             efficiency == Mul(baseEfficiency, precisionMultipliers[a.precision])
             energyJoules == Div(totalFlops, efficiency)
             energyKwhBase == Div(energyJoules, Fin(36, 1, 5))
             totalEnergyKwh == Mul(energyKwhBase, a.pue)
             totalCost == Mul(totalEnergyKwh, a.electricityPrice)
             energyPer1M == Mul(Div(totalEnergyKwh, Fin(1, 1, 6)), Fin(1, 1, 6))
             costPer1M == Mul(energyPer1M, a.electricityPrice)
             carbonEmissionsKg == Mul(totalEnergyKwh, a.region.carbonIntensity)
             energyPerToken == Div(totalEnergyKwh, Fin(1, 1, 6))
         IN  [totalCost |-> totalCost, costPer1M |-> costPer1M,
              totalEnergyKwh |-> totalEnergyKwh, carbonEmissionsKg |-> carbonEmissionsKg,
              totalFlops |-> totalFlops, energyPerToken |-> energyPerToken]

calculateMetrics(a) ==
    IF RejectsModel(a.model) THEN zeroResult
    ELSE LET totalFlops ==
                 Mul(Mul(Mul(Fin(2, 1, 0), Billions(a.model.parameters_in_billions)),
                         Fin(1, 1, 9)),
                     a.tokenCount)
             efficiency == Mul(baseEfficiency, precisionMultipliers[a.precision])
             energyJoules == Div(totalFlops, efficiency)
             energyKwhBase == Div(energyJoules, Fin(36, 1, 5))
             totalEnergyKwh == Mul(energyKwhBase, a.pue)
             totalCost == Mul(totalEnergyKwh, a.electricityPrice)
             energyPer1M == Mul(Div(totalEnergyKwh, a.tokenCount), Fin(1, 1, 6))
             costPer1M == Mul(energyPer1M, a.electricityPrice)
             carbonEmissionsKg == Mul(totalEnergyKwh, a.region.carbonIntensity)
             energyPerToken == Div(totalEnergyKwh, a.tokenCount)
         IN  [totalCost |-> totalCost, costPer1M |-> costPer1M,
              totalEnergyKwh |-> totalEnergyKwh, carbonEmissionsKg |-> carbonEmissionsKg,
              totalFlops |-> totalFlops, energyPerToken |-> energyPerToken]

(***************************************************************************)
(* The engine on its own: one call with arguments of every kind.           *)
(***************************************************************************)
\* counts a model can carry: of a catalog entry, and what only a caller
\* outside the page can pass
ParameterCounts == {15, B(7), B(70), B(1000), 0, 0 - B(7), NaN, Infinity, NegInfinity}

\* two names, and the emissions figure of a catalog entry or none
ModelArgs ==
    {NoModel} \cup {Model(ModelData(name, p, e)) :
                        name \in {"Llama 2 70B", "GPT-4 Turbo"}, p \in ParameterCounts,
                        e \in {0, B(70) * energyConsumptionFactor}}

\* Number(e.target.value) || 0: any number, zero for an empty field
TokenCounts == {Fin(0 - 1000, 1, 0), Zero, Fin(1, 1, 0), Fin(1500, 1, 0), Fin(1000000, 1, 0)}

Precisions == {"FP32", "FP16", "FP8"}

\* the slider runs from 1.0 to 2.5
PueValues == {Fin(10, 10, 0), Fin(12, 10, 0), Fin(25, 10, 0)}

\* the slider runs from 0.05 to 0.5
ElectricityPrices == {Fin(5, 100, 0), Fin(152, 1000, 0), Fin(5, 10, 0)}

\* four entries of the table, and the Iowa grid under another name
RegionArgs ==
    {regions[k] : k \in {3, 9, 10, 16}}
        \cup {[name |-> "Iowa", carbonIntensity |-> regions[10].carbonIntensity]}

MetricsArgs ==
    [model : ModelArgs, tokenCount : TokenCounts, precision : Precisions,
     pue : PueValues, electricityPrice : ElectricityPrices, region : RegionArgs]

\* the route is idle, its cache still empty or holding the fallback table
MetricsInit ==
    /\ \/ cachedModels = Null /\ lastFetched = 0
       \/ cachedModels = Some(fallbackModels) /\ lastFetched = BootTime
    /\ now = BootTime
    /\ pc = [r \in Requests |-> "idle"]
    /\ timerArmed = [r \in Requests |-> FALSE]
    /\ fetchCount = [r \in Requests |-> 0]
    /\ logged = [r \in Requests |-> "none"]
    /\ response = [r \in Requests |-> NoResponse]
    /\ upstream = << >>
    /\ catalog = NotRefreshed
    /\ inputs \in MetricsArgs
    /\ metrics = NotCalculated

\* calculateMetrics is called with the arguments
Calculate ==
    /\ ~metrics.done
    /\ metrics' = [done |-> TRUE, result |-> calculateMetrics(inputs)]
    /\ UNCHANGED <<cachedModels, lastFetched, now, pc, timerArmed, fetchCount, logged,
                   response, upstream, catalog, inputs>>

MetricsNext == Calculate

MetricsSpec == MetricsInit /\ [][MetricsNext]_vars

Fields == {"totalCost", "costPer1M", "totalEnergyKwh", "carbonEmissionsKg", "totalFlops",
           "energyPerToken"}

\* the model is one with a finite count above zero
ValidModel(model) ==
    /\ ~model.isNull
    /\ model.parameters_in_billions \notin {NaN, Infinity, NegInfinity}
    /\ model.parameters_in_billions > 0


(***************************************************************************)
(* C18.  calculateMetrics returns the result with all six fields zero      *)
(* whenever the model is null or its parameters_in_billions is zero,       *)
(* negative, NaN or infinite, whatever the other arguments are.            *)
(***************************************************************************)
C18_InvalidModelGivesZero ==
    ( /\ metrics.done
      /\ \/ inputs.model.isNull
         \/ inputs.model.parameters_in_billions \in {NaN, Infinity, NegInfinity}
         \/ inputs.model.parameters_in_billions <= 0 )
    => \A f \in Fields : metrics.result[f] = Zero

\* a model with an infinite count and a million tokens gave six zeros
C18_Witness ==
    /\ metrics.done
    /\ ~inputs.model.isNull
    /\ inputs.model.parameters_in_billions = Infinity
    /\ inputs.tokenCount = Fin(1000000, 1, 0)
    /\ \A f \in Fields : metrics.result[f] = Zero

(***************************************************************************)
(* C19.  For a valid model and a token count of zero or below,             *)
(* calculateMetrics returns the all-zero result: no field is NaN,          *)
(* infinite or negative.  The code violates it: the token count is not     *)
(* tested, and the two per-token fields divide by it.                      *)
(***************************************************************************)
C19_NoTokensGivesZero ==
    ( /\ metrics.done
      /\ ValidModel(inputs.model)
      /\ inputs.tokenCount.n <= 0 )
    => \A f \in Fields : metrics.result[f] = Zero

(***************************************************************************)
(* C20.  For a valid model and a token count above zero:                   *)
(*   totalFlops = 2 * parameters_in_billions * 1e9 * tokenCount,           *)
(*   totalEnergyKwh = totalFlops / (6.59e11 * multiplier) / 3.6e6 * pue    *)
(*     with the multiplier 1 for FP32, 2 for FP16 and 4 for FP8,           *)
(*   totalCost = totalEnergyKwh * electricityPrice,                        *)
(*   carbonEmissionsKg = totalEnergyKwh * region.carbonIntensity,          *)
(*   energyPerToken = totalEnergyKwh / tokenCount,                         *)
(*   costPer1M = energyPerToken * 1e6 * electricityPrice.                  *)
(***************************************************************************)
C20_Formulas ==
    ( /\ metrics.done
      /\ ValidModel(inputs.model)
      /\ inputs.tokenCount.n > 0 )
    => LET r == metrics.result
           multiplier == CASE inputs.precision = "FP32" -> 1
                           [] inputs.precision = "FP16" -> 2
                           [] inputs.precision = "FP8"  -> 4
       IN  /\ r.totalFlops
                 = Mul(Fin(2 * inputs.model.parameters_in_billions, 10, 9), inputs.tokenCount)
           /\ r.totalEnergyKwh
                 = Mul(Div(Div(r.totalFlops, Fin(659 * multiplier, 1, 9)), Fin(36, 1, 5)),
                       inputs.pue)
           /\ r.totalCost = Mul(r.totalEnergyKwh, inputs.electricityPrice)
           /\ r.carbonEmissionsKg = Mul(r.totalEnergyKwh, inputs.region.carbonIntensity)
           /\ r.energyPerToken = Div(r.totalEnergyKwh, inputs.tokenCount)
           /\ r.costPer1M
                 = Mul(Mul(r.energyPerToken, Fin(1, 1, 6)), inputs.electricityPrice)

\* 70 billion parameters, a million tokens, FP16, PUE 1.2, 0.152 per kWh, on
\* the Iowa grid: 1.4e17 FLOPs, 70/1977 kWh
C20_Witness ==
    /\ metrics.done
    /\ inputs.model.parameters_in_billions = B(70)
    /\ inputs.tokenCount = Fin(1000000, 1, 0)
    /\ inputs.precision = "FP16"
    /\ inputs.pue = Fin(12, 10, 0)
    /\ inputs.electricityPrice = Fin(152, 1000, 0)
    /\ inputs.region.name = "Google us-central1"
    /\ metrics.result.totalFlops = Fin(14, 1, 16)
    /\ metrics.result.totalEnergyKwh = Fin(70, 1977, 0)


(***************************************************************************)
(* C21.  The precision multiplier is a fixed lookup, 1 for FP32, 2 for     *)
(* FP16 and 4 for FP8: all other arguments equal, totalEnergyKwh,          *)
(* totalCost, costPer1M, carbonEmissionsKg and energyPerToken at FP16 are  *)
(* exactly one half, and at FP8 exactly one quarter, of what they are at   *)
(* FP32, and totalFlops is the same at every precision.  Stated of the     *)
(* fields that are numbers at FP32.                                        *)
(***************************************************************************)
C21_PrecisionDivides ==
    metrics.done
        => LET atFP32 == calculateMetrics([inputs EXCEPT !.precision = "FP32"])
               divisor == CASE inputs.precision = "FP32" -> 1
                            [] inputs.precision = "FP16" -> 2
                            [] inputs.precision = "FP8"  -> 4
           IN  /\ metrics.result.totalFlops = atFP32.totalFlops
               /\ \A f \in Fields \ {"totalFlops"} :
                     atFP32[f].kind # "NaN"
                         => metrics.result[f] = Div(atFP32[f], Fin(divisor, 1, 0))

\* 70 billion parameters, a million tokens, PUE 1.2: 140/1977 kWh at FP32, a
\* quarter of it at FP8
C21_Witness ==
    /\ metrics.done
    /\ inputs.precision = "FP8"
    /\ inputs.model.parameters_in_billions = B(70)
    /\ inputs.tokenCount = Fin(1000000, 1, 0)
    /\ inputs.pue = Fin(12, 10, 0)
    /\ calculateMetrics([inputs EXCEPT !.precision = "FP32"]).totalEnergyKwh = Fin(140, 1977, 0)
    /\ metrics.result.totalEnergyKwh = Fin(35, 1977, 0)


(***************************************************************************)
(* C22.  calculateMetrics is a function of parameters_in_billions,         *)
(* tokenCount, precision, pue, electricityPrice and the region's           *)
(* carbonIntensity alone: the result of a call is the result for the same  *)
(* six values under any model name, emissions figure and region name,      *)
(* with the catalog cache empty or filled, and the call changes neither    *)
(* the cache nor its own arguments.                                        *)
(***************************************************************************)
\* the arguments with everything but the six values blanked
C22_SixValues(a) ==
    [a EXCEPT !.model = [@ EXCEPT !.name = "", !.emissions_per_token_kWh = 0],
              !.region = [@ EXCEPT !.name = ""]]

C22_FunctionOfSixValues ==
    [][~metrics.done /\ metrics'.done
          => /\ metrics'.result = calculateMetrics(C22_SixValues(inputs))
             /\ cachedModels' = cachedModels
             /\ lastFetched' = lastFetched
             /\ inputs' = inputs]_vars

\* a call for the model named GPT-4 Turbo with an emissions figure, on the
\* grid named Iowa, with the fallback table in the cache, gave the 70/1977 kWh
\* of the nameless call
C22_Witness ==
    /\ metrics.done
    /\ inputs.model.name = "GPT-4 Turbo"
    /\ inputs.model.emissions_per_token_kWh # 0
    /\ inputs.model.parameters_in_billions = B(70)
    /\ inputs.region.name = "Iowa"
    /\ inputs.tokenCount = Fin(1000000, 1, 0)
    /\ inputs.precision = "FP16"
    /\ inputs.pue = Fin(12, 10, 0)
    /\ cachedModels = Some(fallbackModels)
    /\ metrics.result.totalEnergyKwh = Fin(70, 1977, 0)
    /\ metrics.result = calculateMetrics(C22_SixValues(inputs))


(***************************************************************************)
(* C23.  No upstream entry whose name holds the word "baidu" or "ernie",   *)
(* in any case, or a "(free)" marker, in any case and with or without      *)
(* spaces inside the parentheses, is in a catalog made by a refresh, also  *)
(* when the name carries a number+unit token.                              *)
(***************************************************************************)
\* the names of the data arrays the two filters bar; each carries a token
C23_Barred == {"ERNIE 4.5 300B", "Baidu Chat 7B", "Qwen 7B ( Free )"}

C23_BarredNamesAbsent ==
    catalog.pass >= 1
        => \A i \in 1..Len(catalog.models) : catalog.models[i].name \notin C23_Barred

\* a free-tier name and a denylisted name were listed; the catalog made of the
\* data array holds the two essential models only
C23_Witness ==
    /\ catalog.pass = 1
    /\ Len(upstream) = 2
    /\ upstream[1].name = "Qwen 7B ( Free )"
    /\ upstream[2].name = "ERNIE 4.5 300B"
    /\ Len(catalog.models) = 2

(***************************************************************************)
(* C24.  A token is recognised only when the unit letter follows the       *)
(* numeral directly: a name in which white space stands between every      *)
(* numeral and the b, B, t or T after it, such as "Model 7 B", yields no   *)
(* candidate, so no entry of that name is in the refreshed catalog.  The   *)
(* code violates it: the expression allows white space in front of the     *)
(* unit.                                                                   *)
(***************************************************************************)
C24_SpacedUnitNoEntry ==
    catalog.pass = 1
        => \A i \in 1..Len(catalog.models) : catalog.models[i].name # "Model 7 B"


(***************************************************************************)
(* The calculator page.  Its state is what it hands to the metrics engine  *)
(* at every render, and the list of models it offers; inputs holds the     *)
(* state and metrics what the last render computed.                        *)
(***************************************************************************)
\* the list the page falls back on when /api/models cannot be fetched
fallbackData ==
    << ModelData("GPT-4 Turbo", B(175), 13290000),
       ModelData("Claude-3 Opus", B(175), 13290000),
       ModelData("Llama 2 70B", B(70), 5316000),
       ModelData("Mixtral 8x7B", B(7), 531600),
       ModelData("Llama 2 13B", B(13), 987200),
       ModelData("Llama 2 7B", B(7), 531600),
       ModelData("Mistral 7B", B(7), 531600) >>

\* the metrics of the render that follows a change of state
Render(state) == [done |-> TRUE, result |-> calculateMetrics(state)]

\* the component is mounted: the initial values of its useState hooks
Mount ==
    /\ inputs = NoInputs
    /\ inputs' = [models |-> << >>, model |-> NoModel, region |-> regions[9 + 1],
                  electricityPrice |-> Fin(152, 1000, 0), tokenCount |-> Fin(1000000, 1, 0),
                  precision |-> "FP16", pue |-> Fin(12, 10, 0)]
    /\ metrics' = Render(inputs')
    /\ UNCHANGED <<cachedModels, lastFetched, now, pc, timerArmed, fetchCount, logged,
                   response, upstream, catalog>>

\* the state changes and the component renders again
SetState(state) ==
    /\ inputs # NoInputs
    /\ inputs' = state
    /\ metrics' = Render(state)
    /\ UNCHANGED <<cachedModels, lastFetched, now, pc, timerArmed, fetchCount, logged,
                   response, upstream, catalog>>

\* fetchModels fails: the catch block installs the fallback list and selects
\* its first entry
FetchModelsFails ==
    /\ inputs # NoInputs
    /\ inputs.models = << >>
    /\ SetState([inputs EXCEPT !.models = fallbackData, !.model = Model(fallbackData[1])])

\* the combobox reports a value: the model of that name, or null
SelectModel(value) ==
    /\ inputs # NoInputs
    /\ LET found == {k \in 1..Len(inputs.models) : inputs.models[k].name = value}
       IN  SetState([inputs EXCEPT !.model =
                        IF found = {} THEN NoModel
                        ELSE Model(inputs.models[CHOOSE k \in found : \A h \in found : k <= h])])

\* the region select reports a value: the region of that name, if there is one
SelectRegion(value) ==
    /\ inputs # NoInputs
    /\ LET found == {k \in 1..Len(regions) : regions[k].name = value}
       IN  IF found = {}
           THEN UNCHANGED vars
           ELSE SetState([inputs EXCEPT !.region =
                             regions[CHOOSE k \in found : \A h \in found : k <= h]])

SetTokenCount(count) == SetState([inputs EXCEPT !.tokenCount = count])

SetPrecision(value) == SetState([inputs EXCEPT !.precision = value])

SetPue(value) == SetState([inputs EXCEPT !.pue = value])

SetElectricityPrice(value) == SetState([inputs EXCEPT !.electricityPrice = value])

\* what the two selects can report: names on offer and a name that is not
ModelValues == {"GPT-4 Turbo", "Llama 2 70B", ""}

RegionValues == {regions[k].name : k \in 1..Len(regions)} \cup {"Mars"}

\* what the token field and the two sliders can report
TokenValues == {Zero, Fin(1500, 1, 0), Fin(1000000, 1, 0)}

PueSteps == {Fin(12, 10, 0), Fin(25, 10, 0)}

PriceSteps == {Fin(5, 100, 0), Fin(152, 1000, 0)}

PageNext ==
    \/ Mount
    \/ FetchModelsFails
    \/ \E value \in ModelValues : SelectModel(value)
    \/ \E value \in RegionValues : SelectRegion(value)
    \/ \E count \in TokenValues : SetTokenCount(count)
    \/ \E value \in Precisions : SetPrecision(value)
    \/ \E value \in PueSteps : SetPue(value)
    \/ \E value \in PriceSteps : SetElectricityPrice(value)

PageSpec == Init /\ [][PageNext]_vars


(***************************************************************************)
(* C25.  When the calculator is mounted the selected region is the         *)
(* "United States (Average)" entry of the regions table, carbon intensity  *)
(* 0.345; after any sequence of region selections the selected region is   *)
(* an entry of the table, and a region name that is not in the table       *)
(* leaves the selection as it is.  The code violates the first part: the   *)
(* initial value is regions[9], the Iowa grid.                             *)
(***************************************************************************)
C25_RegionDefaultAndRange ==
    [][/\ inputs = NoInputs /\ inputs' # NoInputs
            => inputs'.region = [name |-> "United States (Average)",
                                 carbonIntensity |-> Fin(345, 1000, 0)]
       /\ inputs' # NoInputs
            => \E k \in 1..Len(regions) : inputs'.region = regions[k]
       /\ \A value \in RegionValues :
            ( /\ \A k \in 1..Len(regions) : regions[k].name # value
              /\ SelectRegion(value) )
            => inputs'.region = inputs.region]_vars


(***************************************************************************)
(* C26.  Once a GET has stored a catalog made from the upstream in the     *)
(* cache, the cache holds a catalog made from the upstream for the next    *)
(* 24 hours: no request, a concurrent one that began its fetch earlier and *)
(* fails after the store included, puts the fallback table in its place    *)
(* inside that window.  The code violates it: the catch block stores the   *)
(* fallback table whatever the cache holds.                                *)
(***************************************************************************)
C26_UpstreamCatalogKept ==
    [][( /\ ~cachedModels.isNull
         /\ cachedModels.models # fallbackModels
         /\ now - lastFetched < oneDay )
       => cachedModels'.models # fallbackModels]_vars


(***************************************************************************)
(* C27.  The catalog of every GET response, from the cache, from a         *)
(* refresh or from the fallback table, is in non-increasing order of       *)
(* parameters_in_billions, so that its first entry, the one the page       *)
(* selects, has the largest count.  The code violates it: the fallback     *)
(* table is returned in the order it is written in, which is not sorted.   *)
(***************************************************************************)
C27_ResponsesSorted ==
    \A r \in Requests :
        pc[r] = "done"
            => \A i, j \in 1..Len(response[r].body) :
                  i < j => response[r].body[i].parameters_in_billions
                               >= response[r].body[j].parameters_in_billions

(***************************************************************************)
(* C28.  When a GET returns, the catalog it returns is the catalog the     *)
(* cache holds at that moment, and the cache is not empty after a GET has  *)
(* completed.  The code violates it: the three early returns answer with   *)
(* the fallback table and leave the cache as it was.                       *)
(***************************************************************************)
C28_ReturnsWhatIsCached ==
    [][\A r \in Requests :
          Returns(r) => /\ ~cachedModels'.isNull
                        /\ response'[r].body = cachedModels'.models]_vars

(***************************************************************************)
(* C29.  Whatever the sequence and interleaving of GET requests, the clock *)
(* never running backwards: lastFetched never decreases, the cached        *)
(* catalog never returns to null once it is set, and lastFetched is        *)
(* non-zero exactly when the cached catalog is not null.                   *)
(***************************************************************************)
C29_CacheAndStampTogether ==
    /\ (lastFetched # 0) <=> ~cachedModels.isNull
    /\ [][/\ lastFetched' >= lastFetched
          /\ ~cachedModels.isNull => ~cachedModels'.isNull
          /\ (lastFetched' # 0) <=> ~cachedModels'.isNull]_vars

\* the cache has been stored a second time, a day after the first store, while
\* another request is in progress
C29_Witness ==
    /\ ~cachedModels.isNull
    /\ lastFetched >= BootTime + oneDay
    /\ \E r \in Requests : pc[r] \in {"awaitFetch", "awaitJson"}


(***************************************************************************)
(* C30.  For a valid model and a token count above zero, all other         *)
(* arguments equal: costPer1M and energyPerToken are the same for every    *)
(* token count above zero, and totalFlops, totalEnergyKwh, totalCost and   *)
(* carbonEmissionsKg are proportional to the token count, so that twice    *)
(* the tokens give twice each of them.                                     *)
(***************************************************************************)
C30_Positive == {t \in TokenCounts : t.kind = "finite" /\ t.n > 0}

=============================================================================
